---- MODULE Spec2Model ----
(***************************************************************************)
(* A model of src/src/tcp.rs: one TCP connection (state, send and receive  *)
(* sequence spaces, header template), the wraparound comparator            *)
(* is_between_wrapped, and the operations accept, on_packet, write and     *)
(* send_rst.                                                               *)
(*                                                                         *)
(* A u32 is a pair <<hi, lo>> of 16-bit limbs, most significant first, so  *)
(* that all arithmetic is exactly modulo 2^32 (TLC's integers are 32-bit   *)
(* signed and cannot hold 2^32 - 1).                                       *)
(***************************************************************************)
EXTENDS Integers, Sequences, FiniteSets, TLC

VARIABLES
    c,                \* the Connection (Option<Connection>): None or a record
    before,           \* the Connection as it was when the last call began
    nic,              \* frames handed to nic.send by the last call, in order
    ret,              \* how the last call returned
    call,             \* the last call: operation and its arguments
    nadv,             \* number of segments that have moved recv.nxt
    nchanges,         \* number of calls that have changed the connection
    b_in,             \* arguments of the comparator call
    b_out             \* its result

vars == <<c, before, nic, ret, call, nadv, nchanges, b_in, b_out>>

---------------------------------------------------------------------------
(* Bounds of the model *)

\* number of calls that change the connection in one behaviour
MaxChanges == 4

\* number of inbound segments that move recv.nxt in one behaviour
MaxAdvances == 1

\* how far from 0, 2^31 and 2^32 the comparator's sample arguments reach
NearK == 1

---------------------------------------------------------------------------
(* u32 arithmetic *)

\* one 16-bit limb of a u32
W16 == 65536

U32Zero == <<0, 0>>
U32Max  == <<W16 - 1, W16 - 1>>

\* the u32 of a natural number below 2^31
u32(n) == <<n \div W16, n % W16>>

\* u32::wrapping_add
wrapping_add(a, b) ==
    LET lo == a[2] + b[2]
        hi == a[1] + b[1] + (lo \div W16)
    IN  <<hi % W16, lo % W16>>

\* u32::wrapping_sub
wrapping_sub(a, b) ==
    LET lo == a[2] - b[2]
        borrow == IF lo < 0 THEN 1 ELSE 0
        hi == a[1] - b[1] - borrow
    IN  <<hi % W16, lo % W16>>

\* the unsigned order of u32 (Ord for u32)
u32_lt(a, b) == a[1] < b[1] \/ (a[1] = b[1] /\ a[2] < b[2])
u32_le(a, b) == a = b \/ u32_lt(a, b)

\* a + b on u32 leaves the range of u32 (the `+` operator overflows)
add_overflows(a, b) == a[1] + b[1] + ((a[2] + b[2]) \div W16) >= W16

\* a - b on u32 leaves the range of u32 (the `-` operator underflows)
sub_underflows(a, b) == u32_lt(a, b)

---------------------------------------------------------------------------
(* fn is_between_wrapped(start, x, end) *)

\* is_between_wrapped with `end <= x` written `end < x`
is_between_wrapped_mut(start, x, end) ==
    IF start = x THEN FALSE
    ELSE IF u32_lt(start, x)
         THEN ~(u32_le(start, end) /\ u32_lt(end, x))
         ELSE u32_lt(end, start) /\ u32_lt(x, end)

\* lines 278-327
is_between_wrapped(start, x, end) ==
    IF start = x THEN FALSE
    ELSE IF u32_lt(start, x)
         THEN ~(u32_le(start, end) /\ u32_le(end, x))
         ELSE u32_lt(end, start) /\ u32_lt(x, end)

---------------------------------------------------------------------------
(* Connection, the inbound segment and the outgoing frame *)

\* Option<Connection>::None: no connection exists
None ==
    [state |-> "None",
     send  |-> [iss |-> U32Zero, una |-> U32Zero, nxt |-> U32Zero, wnd |-> 0],
     recv  |-> [nxt |-> U32Zero, wnd |-> 0, irs |-> U32Zero],
     tcp   |-> [syn |-> FALSE, ack |-> FALSE, fin |-> FALSE, rst |-> FALSE,
                sequence_number |-> U32Zero,
                acknowledgment_number |-> U32Zero,
                window_size |-> 0]]

\* let mut buf = [0u8; 1500]
BufLen == 1500

\* Ipv4Header::header_len() of a header built without options
IpHeaderLen == 20

\* TcpHeader::header_len() of a header built without options
TcpHeaderLen == 20

\* let iss = 0
Iss == 0

\* let wnd = 1024
Wnd == 1024

\* an inbound TCP header (TcpHeaderSlice): the fields the engine reads
Hdr(syn, ack, fin, seq, ackn, window) ==
    [syn |-> syn, ack |-> ack, fin |-> fin,
     sequence_number |-> seq, acknowledgment_number |-> ackn,
     window_size |-> window]

NoHdr == Hdr(FALSE, FALSE, FALSE, U32Zero, U32Zero, 0)

\* checks: the call ran with overflow checks and met an overflow
NoCall ==
    [op |-> "none", tcph |-> NoHdr, len |-> 0, okay |-> FALSE,
     checks |-> FALSE]

\* the running result of a call: the connection, the frames handed to
\* nic.send so far, and "run" while the call has not returned
Machine(conn, frames, r) == [c |-> conn, nic |-> frames, ret |-> r]

---------------------------------------------------------------------------
(* Connection::write *)

\* bytes copied by `unwritten.write(payload)`: the room left in buf after
\* the two headers
payload_bytes(n) ==
    IF n < BufLen - IpHeaderLen - TcpHeaderLen
    THEN n ELSE BufLen - IpHeaderLen - TcpHeaderLen

\* lines 83-84: the header template is stamped from the sequence spaces
stamp(conn) ==
    [conn.tcp EXCEPT !.sequence_number = conn.send.nxt,
                     !.acknowledgment_number = conn.recv.nxt]

\* lines 99-107: send.nxt after the write, with the flags as stamped
charge(nxt, n, syn, fin) ==
    wrapping_add(
        wrapping_add(
            wrapping_add(nxt, u32(payload_bytes(n))),
            u32(IF syn THEN 1 ELSE 0)),
        u32(IF fin THEN 1 ELSE 0))

\* the frame serialised at lines 95-97 (headers as stamped, then payload)
frame_of(tcp, n, ok) ==
    [sequence_number |-> tcp.sequence_number,
     acknowledgment_number |-> tcp.acknowledgment_number,
     syn |-> tcp.syn, ack |-> tcp.ack, fin |-> tcp.fin, rst |-> tcp.rst,
     payload_len |-> payload_bytes(n),
     sent |-> ok]

\* write(&mut self, nic, payload) with payload.len() = n; ok is whether
\* nic.send succeeds.  The call returns Err when it does not.
\* write that leaves the SYN and FIN flags set
write_mut(m, n, ok) ==
    LET tcp1 == stamp(m.c)
        nxt1 == charge(m.c.send.nxt, n, tcp1.syn, tcp1.fin)
        conn1 == [m.c EXCEPT !.tcp = tcp1, !.send.nxt = nxt1]
    IN  Machine(conn1, Append(m.nic, frame_of(tcp1, n, ok)),
                IF ok THEN m.ret ELSE "Err")

write(m, n, ok) ==
    LET tcp1 == stamp(m.c)
        nxt1 == charge(m.c.send.nxt, n, tcp1.syn, tcp1.fin)
        conn1 == [m.c EXCEPT !.tcp = [tcp1 EXCEPT !.syn = FALSE, !.fin = FALSE],
                             !.send.nxt = nxt1]
    IN  Machine(conn1, Append(m.nic, frame_of(tcp1, n, ok)),
                IF ok THEN m.ret ELSE "Err")

\* the next nic.send of the call succeeds (ios says which ones fail)
io_ok(ios, m) == ~ios[Len(m.nic) + 1]

---------------------------------------------------------------------------
(* Connection::accept *)

\* new_connection with recv.nxt = the peer's sequence number, not + 1
new_connection_mut(tcph) ==
    [state |-> "SynRcvd",
     send  |-> [iss |-> u32(Iss), una |-> u32(Iss), nxt |-> u32(Iss),
                wnd |-> Wnd],
     recv  |-> [nxt |-> tcph.sequence_number,
                wnd |-> tcph.window_size,
                irs |-> tcph.sequence_number],
     tcp   |-> [syn |-> FALSE, ack |-> FALSE, fin |-> FALSE, rst |-> FALSE,
                sequence_number |-> u32(Iss),
                acknowledgment_number |-> U32Zero,
                window_size |-> Wnd]]

\* lines 235-269: the Connection built from the inbound SYN
new_connection(tcph) ==
    [state |-> "SynRcvd",
     send  |-> [iss |-> u32(Iss), una |-> u32(Iss), nxt |-> u32(Iss),
                wnd |-> Wnd],
     recv  |-> [nxt |-> wrapping_add(tcph.sequence_number, u32(1)),
                wnd |-> tcph.window_size,
                irs |-> tcph.sequence_number],
     tcp   |-> [syn |-> FALSE, ack |-> FALSE, fin |-> FALSE, rst |-> FALSE,
                sequence_number |-> u32(Iss),
                acknowledgment_number |-> U32Zero,
                window_size |-> Wnd]]

\* syn_ack that does not set SYN
syn_ack_mut(conn) == [conn EXCEPT !.tcp.syn = FALSE, !.tcp.ack = TRUE]

\* lines 271-272
syn_ack(conn) == [conn EXCEPT !.tcp.syn = TRUE, !.tcp.ack = TRUE]

\* accept(nic, iph, tcph, data): Ok(None), a panic on `+ 1` overflowing
\* under overflow checks, Err from nic.send, or Ok(Some(c))
accept(tcph, ios, checks) ==
    IF ~tcph.syn
    THEN Machine(None, <<>>, "OkNone")
    ELSE IF checks /\ add_overflows(tcph.sequence_number, u32(1))
    THEN Machine(None, <<>>, "Panic")
    ELSE LET m0 == Machine(syn_ack(new_connection(tcph)), <<>>, "run")
             m1 == write(m0, 0, io_ok(ios, m0))
         IN  IF m1.ret = "Err"
             THEN Machine(None, m1.nic, "Err")
             ELSE Machine(m1.c, m1.nic, "OkSome")

---------------------------------------------------------------------------
(* Connection::send_rst *)

\* lines 113-115
set_rst(conn) ==
    [conn EXCEPT !.tcp.rst = TRUE,
                 !.tcp.sequence_number = U32Zero,
                 !.tcp.acknowledgment_number = U32Zero]

send_rst(conn, ios) ==
    LET m0 == Machine(set_rst(conn), <<>>, "run")
        m1 == write(m0, 0, io_ok(ios, m0))
    IN  IF m1.ret = "run" THEN [m1 EXCEPT !.ret = "Ok"] ELSE m1

---------------------------------------------------------------------------
(* Connection::on_packet *)

\* lines 131-137: the segment's length in sequence space
segment_len(tcph, dlen) ==
    dlen + (IF tcph.syn THEN 1 ELSE 0) + (IF tcph.fin THEN 1 ELSE 0)

\* line 129
strt_of(conn) == wrapping_sub(conn.recv.nxt, u32(1))

\* line 139
wend_of(conn) == wrapping_add(conn.recv.nxt, u32(conn.recv.wnd))

\* line 156, second operand: seqn.wrapping_add(slen-1) as u32 - 1
last_arg(seqn, slen) ==
    wrapping_sub(wrapping_add(seqn, u32(slen - 1)), u32(1))

\* line 156: the `- 1` is evaluated (the first comparison did not decide)
\* and its left operand is 0
last_underflows(conn, tcph, dlen) ==
    LET slen == segment_len(tcph, dlen)
    IN  /\ slen > 0
        /\ conn.recv.wnd # 0
        /\ ~is_between_wrapped(strt_of(conn), tcph.sequence_number, wend_of(conn))
        /\ sub_underflows(wrapping_add(tcph.sequence_number, u32(slen - 1)), u32(1))

\* okay_of comparing a zero-length segment against start = recv.nxt
okay_of_mut(conn, tcph, dlen) ==
    LET seqn == tcph.sequence_number
        slen == segment_len(tcph, dlen)
        strt == strt_of(conn)
        wend == wend_of(conn)
    IN  IF slen = 0
        THEN IF conn.recv.wnd = 0
             THEN seqn = conn.recv.nxt
             ELSE is_between_wrapped(conn.recv.nxt, seqn, wend)
        ELSE IF conn.recv.wnd = 0
             THEN FALSE
             ELSE ~(/\ ~is_between_wrapped(strt, seqn, wend)
                    /\ ~is_between_wrapped(strt, last_arg(seqn, slen), wend))

\* lines 140-161: let okay = ...
okay_of(conn, tcph, dlen) ==
    LET seqn == tcph.sequence_number
        slen == segment_len(tcph, dlen)
        strt == strt_of(conn)
        wend == wend_of(conn)
    IN  IF slen = 0
        THEN IF conn.recv.wnd = 0
             THEN seqn = conn.recv.nxt
             ELSE is_between_wrapped(strt, seqn, wend)
        ELSE IF conn.recv.wnd = 0
             THEN FALSE
             ELSE ~(/\ ~is_between_wrapped(strt, seqn, wend)
                    /\ ~is_between_wrapped(strt, last_arg(seqn, slen), wend))

\* reject that sends no acknowledgment
reject_mut(m, ios) == [m EXCEPT !.ret = "Ok"]

\* lines 163-166: the segment is not acceptable
reject(m, ios) ==
    LET m1 == write(m, 0, io_ok(ios, m))
    IN  IF m1.ret = "run" THEN [m1 EXCEPT !.ret = "Ok"] ELSE m1

\* line 168
advance_recv(conn, tcph, dlen) ==
    [conn EXCEPT !.recv.nxt =
        wrapping_add(tcph.sequence_number, u32(segment_len(tcph, dlen)))]

\* step_no_ack that goes on to process a segment without the ACK flag
step_no_ack_mut(m, tcph) == m

\* lines 171-173
step_no_ack(m, tcph) ==
    IF m.ret = "run" /\ ~tcph.ack THEN [m EXCEPT !.ret = "Ok"] ELSE m

\* step_syn_rcvd that does not look at the state
step_syn_rcvd_mut(m, tcph) ==
    IF m.ret = "run"
       /\ is_between_wrapped(wrapping_sub(m.c.send.una, u32(1)),
                             tcph.acknowledgment_number,
                             wrapping_add(m.c.send.nxt, u32(1)))
    THEN [m EXCEPT !.c.state = "Estab"]
    ELSE m

\* lines 176-183
step_syn_rcvd(m, tcph) ==
    IF m.ret = "run" /\ m.c.state = "SynRcvd"
       /\ is_between_wrapped(wrapping_sub(m.c.send.una, u32(1)),
                             tcph.acknowledgment_number,
                             wrapping_add(m.c.send.nxt, u32(1)))
    THEN [m EXCEPT !.c.state = "Estab"]
    ELSE m

\* step_ack that takes an ack number up to send.nxt + 1
step_ack_mut(m, tcph, dlen, ios) ==
    IF m.ret = "run" /\ m.c.state \in {"Estab", "FinWait1", "FinWait2"}
    THEN IF ~is_between_wrapped(m.c.send.una, tcph.acknowledgment_number,
                                wrapping_add(m.c.send.nxt, u32(2)))
         THEN [m EXCEPT !.ret = "Ok"]
         ELSE LET m1 == [m EXCEPT !.c.send.una = tcph.acknowledgment_number]
              IN  IF dlen # 0
                  THEN [m1 EXCEPT !.ret = "Panic"]
                  ELSE IF m1.c.state = "Estab"
                       THEN LET m2 == [m1 EXCEPT !.c.tcp.fin = TRUE]
                                m3 == write(m2, 0, io_ok(ios, m2))
                            IN  IF m3.ret = "run"
                                THEN [m3 EXCEPT !.c.state = "FinWait1"]
                                ELSE m3
                       ELSE m1
    ELSE m

\* lines 185-199
step_ack(m, tcph, dlen, ios) ==
    IF m.ret = "run" /\ m.c.state \in {"Estab", "FinWait1", "FinWait2"}
    THEN IF ~is_between_wrapped(m.c.send.una, tcph.acknowledgment_number,
                                wrapping_add(m.c.send.nxt, u32(1)))
         THEN [m EXCEPT !.ret = "Ok"]
         ELSE LET m1 == [m EXCEPT !.c.send.una = tcph.acknowledgment_number]
              IN  IF dlen # 0
                  THEN [m1 EXCEPT !.ret = "Panic"]
                  ELSE IF m1.c.state = "Estab"
                       THEN LET m2 == [m1 EXCEPT !.c.tcp.fin = TRUE]
                                m3 == write(m2, 0, io_ok(ios, m2))
                            IN  IF m3.ret = "run"
                                THEN [m3 EXCEPT !.c.state = "FinWait1"]
                                ELSE m3
                       ELSE m1
    ELSE m

\* lines 201-206
step_fin_wait1(m, checks) ==
    IF m.ret = "run" /\ m.c.state = "FinWait1"
    THEN IF checks /\ add_overflows(m.c.send.iss, u32(2))
         THEN [m EXCEPT !.ret = "Panic"]
         ELSE IF m.c.send.una = wrapping_add(m.c.send.iss, u32(2))
              THEN [m EXCEPT !.c.state = "FinWait2"]
              ELSE m
    ELSE m

\* step_fin that ignores a FIN outside FinWait2
step_fin_mut(m, tcph, ios) ==
    IF m.ret = "run" /\ tcph.fin
    THEN IF m.c.state = "FinWait2"
         THEN LET m1 == write(m, 0, io_ok(ios, m))
              IN  IF m1.ret = "run"
                  THEN [m1 EXCEPT !.c.state = "TimeWait"]
                  ELSE m1
         ELSE m
    ELSE m

\* lines 208-217
step_fin(m, tcph, ios) ==
    IF m.ret = "run" /\ tcph.fin
    THEN IF m.c.state = "FinWait2"
         THEN LET m1 == write(m, 0, io_ok(ios, m))
              IN  IF m1.ret = "run"
                  THEN [m1 EXCEPT !.c.state = "TimeWait"]
                  ELSE m1
         ELSE [m EXCEPT !.ret = "Panic"]
    ELSE m

\* line 219
finish(m) == IF m.ret = "run" THEN [m EXCEPT !.ret = "Ok"] ELSE m

\* on_packet(&mut self, nic, iph, tcph, data) with data.len() = dlen
on_packet(conn, tcph, dlen, ios, checks) ==
    LET m0 == Machine(conn, <<>>, "run")
    IN  IF checks /\ last_underflows(conn, tcph, dlen)
        THEN [m0 EXCEPT !.ret = "Panic"]
        ELSE IF ~okay_of(conn, tcph, dlen)
        THEN reject(m0, ios)
        ELSE LET m1 == [m0 EXCEPT !.c = advance_recv(conn, tcph, dlen)]
                 m2 == step_no_ack(m1, tcph)
                 m3 == step_syn_rcvd(m2, tcph)
                 m4 == step_ack(m3, tcph, dlen, ios)
                 m5 == step_fin_wait1(m4, checks)
                 m6 == step_fin(m5, tcph, ios)
             IN  finish(m6)

---------------------------------------------------------------------------
(* The inputs the environment may present *)

\* the peer's SYN: its sequence number and window field.  An ordinary
\* one, one with a closed window, one whose window straddles 2^32, and one
\* whose sequence number is the largest u32
PeerSyns ==
    {<<u32(1000), 2>>,
     <<u32(1000), 0>>,
     <<wrapping_sub(U32Max, u32(1)), 2>>,
     <<U32Max, 2>>}

\* sequence numbers of later segments: around both edges of the window
SeqChoices(conn) ==
    {wrapping_sub(conn.recv.nxt, u32(1)),
     conn.recv.nxt,
     wrapping_sub(wend_of(conn), u32(1)),
     wend_of(conn)}

\* acknowledgment numbers of later segments: around send.una and send.nxt
AckChoices(conn) ==
    {conn.send.una,
     conn.send.nxt,
     wrapping_add(conn.send.nxt, u32(1)),
     wrapping_add(conn.send.iss, u32(2))}

\* payload lengths of inbound segments
DataLens == {0, 1}

\* payload lengths the application writes
PayloadLens == {0, 1, BufLen}

\* which of the (at most two) nic.send calls of one call fail: none, the
\* first, or the second
IoOutcomes == {<<FALSE, FALSE>>, <<TRUE, FALSE>>, <<FALSE, TRUE>>}

\* arguments of the comparator
Samples ==
    {u32(i) : i \in 0..NearK}
    \cup {wrapping_sub(U32Max, u32(i)) : i \in 0..NearK}
    \cup {wrapping_sub(<<W16 \div 2, 0>>, u32(i)) : i \in 0..NearK}
    \cup {u32(5), u32(16), <<W16 - 1, W16 - 16>>}

---------------------------------------------------------------------------
(* The state machine *)

Init ==
    /\ c = None
    /\ before = None
    /\ nic = <<>>
    /\ ret = "Init"
    /\ call = NoCall
    /\ nadv = 0
    /\ nchanges = 0
    /\ b_in = <<U32Zero, U32Zero, U32Zero>>
    /\ b_out = <<>>

\* the caller is between two calls, and may make another
Idle == call = NoCall /\ ret # "Panic"

\* the outcomes of nic.send that make a difference to a call whose
\* nic.send calls all succeed n times
IoChoices(n) == {ios \in IoOutcomes : \A i \in 1..2 : i > n => ~ios[i]}

\* A call that halts the program is the last of its behaviour, and the
\* bounds do not count it.
Returned(m, cl) ==
    /\ (m.ret # "Panic" /\ m.c # c) => nchanges < MaxChanges
    /\ (m.ret # "Panic" /\ c # None /\ m.c.recv.nxt # c.recv.nxt) =>
          nadv < MaxAdvances
    /\ c' = m.c
    /\ before' = c
    /\ nic' = m.nic
    /\ ret' = m.ret
    /\ call' = cl
    /\ nchanges' = IF m.c # c THEN nchanges + 1 ELSE nchanges
    /\ nadv' = IF c # None /\ m.c.recv.nxt # c.recv.nxt THEN nadv + 1 ELSE nadv
    /\ UNCHANGED <<b_in, b_out>>

\* what an arithmetic overflow does depends on the build: it panics with
\* overflow checks (the debug profile) and wraps without (release).  A call
\* in which something overflows has either outcome.
Builds(overflows) == IF overflows THEN BOOLEAN ELSE {FALSE}

Accept ==
    /\ Idle
    /\ c = None
    /\ \E syn, ack, fin \in BOOLEAN, peer \in PeerSyns, dlen \in DataLens :
          LET tcph == Hdr(syn, ack, fin, peer[1], U32Zero, peer[2])
              n == Len(accept(tcph, <<FALSE, FALSE>>, FALSE).nic)
          IN  \E ios \in IoChoices(n),
                 checks \in Builds(syn /\ add_overflows(peer[1], u32(1))) :
                Returned(accept(tcph, ios, checks),
                         [op |-> "accept", tcph |-> tcph, len |-> dlen,
                          okay |-> FALSE, checks |-> checks])

OnPacket ==
    /\ Idle
    /\ c # None
    /\ \E syn, ack, fin \in BOOLEAN, seq \in SeqChoices(c),
          dlen \in DataLens :
       \E ackn \in IF ack THEN AckChoices(c) ELSE {U32Zero} :
          LET tcph == Hdr(syn, ack, fin, seq, ackn, 0)
              n == Len(on_packet(c, tcph, dlen, <<FALSE, FALSE>>, FALSE).nic)
          IN  \E ios \in IoChoices(n),
                 checks \in Builds(last_underflows(c, tcph, dlen)) :
                Returned(on_packet(c, tcph, dlen, ios, checks),
                         [op |-> "on_packet", tcph |-> tcph, len |-> dlen,
                          okay |-> okay_of(c, tcph, dlen), checks |-> checks])

Write ==
    /\ Idle
    /\ c # None
    /\ \E n \in PayloadLens, ios \in IoChoices(1) :
          LET m0 == Machine(c, <<>>, "run")
              m1 == write(m0, n, io_ok(ios, m0))
          IN  Returned(finish(m1),
                       [op |-> "write", tcph |-> NoHdr, len |-> n,
                        okay |-> FALSE, checks |-> FALSE])

SendRst ==
    /\ Idle
    /\ c # None
    /\ \E ios \in IoChoices(1) :
          Returned(send_rst(c, ios),
                   [op |-> "send_rst", tcph |-> NoHdr, len |-> 0,
                    okay |-> FALSE, checks |-> FALSE])

\* the caller has looked at the result of the call and waits for the next
\* event; the call's arguments and frames are gone
Loop ==
    /\ call # NoCall
    /\ ret # "Panic"
    /\ call' = NoCall
    /\ before' = None
    /\ nic' = <<>>
    /\ ret' = "Init"
    /\ UNCHANGED <<c, nadv, nchanges, b_in, b_out>>

Next == Accept \/ OnPacket \/ Write \/ SendRst \/ Loop

Spec == Init /\ [][Next]_vars

---------------------------------------------------------------------------
(* The comparator on its own: every triple of sample arguments *)

InitBetween ==
    /\ c = None
    /\ before = None
    /\ nic = <<>>
    /\ ret = "Init"
    /\ call = NoCall
    /\ nadv = 0
    /\ nchanges = 0
    /\ b_in \in Samples \X Samples \X Samples
    /\ b_out = <<>>

Compare ==
    /\ b_out = <<>>
    /\ b_out' = <<is_between_wrapped(b_in[1], b_in[2], b_in[3])>>
    /\ UNCHANGED <<c, before, nic, ret, call, nadv, nchanges, b_in>>

NextBetween == Compare

SpecBetween == InitBetween /\ [][NextBetween]_vars

---------------------------------------------------------------------------
(* Vocabulary of the properties *)

\* the forward distance from a to b on the 2^32-point circle:
\* the one d in 0 .. 2^32 - 1 with (a + d) mod 2^32 = b
Dist(a, b) == wrapping_sub(b, a)

\* "there is a forward rotation d with 0 < d < (end - start) mod 2^32 and
\* (start + d) mod 2^32 = x": d can only be Dist(start, x)
ForwardBetween(start, x, end) ==
    LET d == Dist(start, x)
    IN  /\ wrapping_add(start, d) = x
        /\ u32_lt(U32Zero, d)
        /\ u32_lt(d, Dist(start, end))

\* x lies in the receive window [recv.nxt, recv.nxt + recv.wnd) of conn
InWindow(conn, x) == u32_lt(Dist(conn.recv.nxt, x), u32(conn.recv.wnd))

\* the sequence positions the frames of the last call occupy
RECURSIVE Charged(_)
Charged(frames) ==
    IF frames = <<>> THEN 0
    ELSE LET f == Head(frames)
         IN  f.payload_len + (IF f.syn THEN 1 ELSE 0) + (IF f.fin THEN 1 ELSE 0)
             + Charged(Tail(frames))

AllSent == \A i \in 1..Len(nic) : nic[i].sent

Slen == segment_len(call.tcph, call.len)

---------------------------------------------------------------------------
(* C1 *)

\* C1: for all start, x, end, is_between_wrapped(start, x, end) is true
\* iff x is reached from start by a forward rotation d with
\* 0 < d < (end - start) mod 2^32; it is false whenever x = start, and
\* true for (0xFFFFFFF0, 0x00000005, 0x00000010).
C1_Between ==
    b_out # <<>> =>
        /\ b_out[1] <=> ForwardBetween(b_in[1], b_in[2], b_in[3])
        /\ b_in[2] = b_in[1] => ~b_out[1]
        /\ b_in = <<<<W16 - 1, W16 - 16>>, u32(5), u32(16)>> => b_out[1]

\* the comparator has answered TRUE for an interval that wraps around 2^32
C1_Witness ==
    /\ b_out = <<TRUE>>
    /\ b_in = <<<<W16 - 1, W16 - 16>>, u32(5), u32(16)>>

---------------------------------------------------------------------------
(* C2 *)

\* C2: accept returns no connection and hands nothing to the device when
\* the inbound segment has no SYN; for a SYN with sequence number
\* s < 2^32 - 1, whatever its other flags, it hands the device one SYN+ACK
\* segment and, the device taking it, returns a connection in SynRcvd with
\* send.iss = send.una = 0, recv.irs = s and recv.nxt = s + 1.  (When the
\* device fails, accept returns the failure and no connection.)
C2_Accept ==
    call.op = "accept" =>
        /\ ~call.tcph.syn => (ret = "OkNone" /\ c = None /\ nic = <<>>)
        /\ (call.tcph.syn /\ u32_lt(call.tcph.sequence_number, U32Max)) =>
              /\ Len(nic) = 1
              /\ nic[1].syn /\ nic[1].ack
              /\ nic[1].sent =>
                    /\ ret = "OkSome"
                    /\ c.state = "SynRcvd"
                    /\ c.send.iss = U32Zero
                    /\ c.send.una = U32Zero
                    /\ c.recv.irs = call.tcph.sequence_number
                    /\ Dist(call.tcph.sequence_number, c.recv.nxt) = u32(1)
                    /\ u32_lt(call.tcph.sequence_number, c.recv.nxt)
              /\ ~nic[1].sent => (ret = "Err" /\ c = None)

\* accept has made a connection from a SYN that also carries ACK and FIN,
\* with the sequence number 2^32 - 2
C2_Witness ==
    /\ call.op = "accept"
    /\ call.tcph.syn /\ call.tcph.ack /\ call.tcph.fin
    /\ call.tcph.sequence_number = <<W16 - 1, W16 - 2>>
    /\ ret = "OkSome"
    /\ c.recv.nxt = U32Max

---------------------------------------------------------------------------
(* C3 *)

\* C3 as stated: after accept returns a connection, send.nxt = 0, that is
\* send.nxt still equals send.iss.
C3_AsStated ==
    (call.op = "accept" /\ ret = "OkSome") =>
        (c.send.nxt = U32Zero /\ c.send.nxt = c.send.iss)

\* C3, amended: after accept returns a connection, send.nxt = 1, that is
\* send.iss + 1: the SYN+ACK that accept transmits has consumed one
\* sequence number.
C3_Amended ==
    (call.op = "accept" /\ ret = "OkSome") =>
        /\ c.send.nxt = u32(1)
        /\ c.send.nxt = wrapping_add(c.send.iss, u32(1))
        /\ nic[1].sequence_number = c.send.iss

\* accept has returned a connection for a SYN with sequence number 1000
C3_Witness ==
    /\ call.op = "accept"
    /\ ret = "OkSome"
    /\ call.tcph.sequence_number = u32(1000)
    /\ c.recv.nxt = u32(1001)

---------------------------------------------------------------------------
(* C4 *)

\* C4: the receive window of a connection is a fixed constant: it is the
\* recv.wnd accept gives a connection for the same SYN with any other
\* window field, as long as the connection exists.
C4_AsStated ==
    c # None =>
        \A w \in {p[2] : p \in PeerSyns} :
            c.recv.wnd =
                new_connection(Hdr(TRUE, FALSE, FALSE, c.recv.irs, U32Zero, w)).recv.wnd

---------------------------------------------------------------------------
(* C5 *)

\* C5: on_packet accepts a zero-length segment (no payload, no SYN, no
\* FIN) with sequence number seqn iff recv.wnd = 0 and seqn = recv.nxt, or
\* recv.wnd # 0 and 0 <= (seqn - recv.nxt) mod 2^32 < recv.wnd.
C5_ZeroLength ==
    (call.op = "on_packet" /\ Slen = 0) =>
        (call.okay <=>
            \/ before.recv.wnd = 0 /\ call.tcph.sequence_number = before.recv.nxt
            \/ before.recv.wnd # 0 /\ InWindow(before, call.tcph.sequence_number))

\* a zero-length segment has been accepted at sequence number 0, the last
\* position of a window that began at 2^32 - 1
C5_Witness ==
    /\ call.op = "on_packet"
    /\ Slen = 0
    /\ call.okay
    /\ before.recv.nxt = U32Max
    /\ before.recv.wnd = 2
    /\ call.tcph.sequence_number = U32Zero

---------------------------------------------------------------------------
(* C6 *)

\* C6: on_packet rejects a segment of effective length slen > 0 when
\* recv.wnd = 0, and otherwise accepts it iff its first position seqn or
\* its last position (seqn + slen - 1) mod 2^32 lies in the receive window
\* [recv.nxt, recv.nxt + recv.wnd).
C6_AsStated ==
    (call.op = "on_packet" /\ Slen > 0 /\ ret # "Panic") =>
        (call.okay <=>
            /\ before.recv.wnd # 0
            /\ \/ InWindow(before, call.tcph.sequence_number)
               \/ InWindow(before,
                           wrapping_add(call.tcph.sequence_number, u32(Slen - 1))))

---------------------------------------------------------------------------
(* C7 *)

\* C7: when on_packet rejects a segment in the acceptance check, it hands
\* the device exactly one segment, with no payload, no SYN and no FIN,
\* whose sequence number is send.nxt and whose acknowledgment number is
\* recv.nxt, and it leaves state, send.una, send.nxt, recv.nxt and recv.wnd
\* as they were; it returns Ok iff the device took the segment.
C7_Reject ==
    (call.op = "on_packet" /\ ~call.okay /\ ret # "Panic") =>
        /\ Len(nic) = 1
        /\ nic[1].payload_len = 0
        /\ ~nic[1].syn /\ ~nic[1].fin
        /\ nic[1].sequence_number = before.send.nxt
        /\ nic[1].acknowledgment_number = before.recv.nxt
        /\ c.state = before.state
        /\ c.send.una = before.send.una
        /\ c.send.nxt = before.send.nxt
        /\ c.recv.nxt = before.recv.nxt
        /\ c.recv.wnd = before.recv.wnd
        /\ ret = (IF nic[1].sent THEN "Ok" ELSE "Err")

\* a segment has been rejected, and acknowledged, after the connection
\* had left SynRcvd and moved both recv.nxt and send.nxt
C7_Witness ==
    /\ call.op = "on_packet"
    /\ ~call.okay
    /\ ret = "Ok"
    /\ before.state = "FinWait1"
    /\ nadv = 1
    /\ nic[1].sequence_number = u32(2)
    /\ nic[1].sent

---------------------------------------------------------------------------
(* C8 *)

\* C8: whenever on_packet accepts a segment of effective length slen, the
\* new recv.nxt is (old recv.nxt + slen) mod 2^32, whatever the segment's
\* sequence number within the window; and nothing else changes recv.nxt.
C8_AsStated ==
    /\ (call.op = "on_packet" /\ call.okay) =>
          c.recv.nxt = wrapping_add(before.recv.nxt, u32(Slen))
    /\ (call.op \in {"write", "send_rst"} \/ (call.op = "on_packet" /\ ~call.okay)) =>
          c.recv.nxt = before.recv.nxt

---------------------------------------------------------------------------
(* C9 *)

\* C9: a write call with a payload of length n stamps the segment with
\* seq = send.nxt and ack = recv.nxt, advances send.nxt by
\* min(n, 1500 - header sizes), plus 1 if SYN was set, plus 1 if FIN was
\* set, and clears those flags.  So between calls no SYN or FIN is pending,
\* every call advances send.nxt by exactly the sequence positions of the
\* segments it handed to the device, a SYN or FIN is in one segment only,
\* and a write by the application advances send.nxt by the payload alone.
C9_Write ==
    /\ ~c.tcp.syn /\ ~c.tcp.fin
    /\ (call.op # "none" /\ c # None) =>
          /\ c.send.nxt =
                wrapping_add(IF before = None THEN c.send.iss ELSE before.send.nxt,
                             u32(Charged(nic)))
          /\ Cardinality({i \in 1..Len(nic) : nic[i].syn \/ nic[i].fin}) <= 1
    /\ call.op = "write" =>
          /\ Len(nic) = 1
          /\ nic[1].sequence_number = before.send.nxt
          /\ nic[1].acknowledgment_number = before.recv.nxt
          /\ nic[1].payload_len =
                (IF call.len < BufLen - IpHeaderLen - TcpHeaderLen
                 THEN call.len ELSE BufLen - IpHeaderLen - TcpHeaderLen)
          /\ c.send.nxt = wrapping_add(before.send.nxt, u32(nic[1].payload_len))

\* the application has written a payload longer than a frame holds, after
\* the SYN was sent: send.nxt is 1 + 1460
C9_Witness ==
    /\ call.op = "write"
    /\ call.len = BufLen
    /\ before.send.nxt = u32(1)
    /\ c.send.nxt = u32(1461)

---------------------------------------------------------------------------
(* C10 *)

\* the state in which the call reaches the send.una update (line 185)
StateAtAck ==
    IF /\ before.state = "SynRcvd"
       /\ ForwardBetween(wrapping_sub(before.send.una, u32(1)),
                         call.tcph.acknowledgment_number,
                         wrapping_add(before.send.nxt, u32(1)))
    THEN "Estab"
    ELSE before.state

\* ackn lies in (send.una, send.nxt] as the call begins
AckInRange ==
    LET d == Dist(before.send.una, call.tcph.acknowledgment_number)
    IN  u32_lt(U32Zero, d) /\ u32_le(d, Dist(before.send.una, before.send.nxt))

---------------------------------------------------------------------------
(* C11 *)

\* the frames of the last call are one segment with no payload and no SYN,
\* FIN or RST
PureAck ==
    /\ Len(nic) = 1
    /\ nic[1].payload_len = 0
    /\ nic[1].ack
    /\ ~nic[1].syn /\ ~nic[1].fin

\* C11: when the connection is in FinWait2 and on_packet receives a segment
\* that passes the acceptance check with FIN and ACK set, whatever its
\* acknowledgment number (the peer's ordinary FIN acknowledges send.una
\* again), the engine transmits a pure ACK and the state becomes TimeWait.
\* Stated for a segment without payload and a device that takes the ACK.
C11_AsStated ==
    (/\ call.op = "on_packet"
     /\ call.okay
     /\ call.tcph.fin /\ call.tcph.ack
     /\ call.len = 0
     /\ before.state = "FinWait2"
     /\ ret # "Panic"
     /\ AllSent) =>
        /\ PureAck
        /\ c.state = "TimeWait"

---------------------------------------------------------------------------
(* C12 *)

\* C12: the segment transmitted by send_rst has the RST flag set, an empty
\* payload, sequence number 0 and acknowledgment number 0, in every state
\* and for every value of send.nxt and recv.nxt.
C12_AsStated ==
    call.op = "send_rst" =>
        /\ Len(nic) = 1
        /\ nic[1].rst
        /\ nic[1].payload_len = 0
        /\ nic[1].sequence_number = U32Zero
        /\ nic[1].acknowledgment_number = U32Zero

---------------------------------------------------------------------------
(* C13 *)

\* C13: send.nxt advances and the SYN/FIN flags are cleared only after a
\* successful frame send: when nic.send fails, the call (write, send_rst or
\* on_packet) returns the failure and send.nxt is as it was before the
\* call, so a FIN whose send failed is not charged to send.nxt.
C13_AsStated ==
    (call.op \in {"write", "send_rst", "on_packet"} /\ ~AllSent) =>
        /\ ret = "Err"
        /\ c.send.nxt = before.send.nxt

---------------------------------------------------------------------------
(* C14 *)

\* C14: on_packet moves the state from SynRcvd to Estab only when the
\* inbound ACK acknowledges this side's SYN: its ack number is not
\* send.una, and is send.iss + 1 when no payload has been written; an ACK
\* whose ack number equals send.una leaves the state SynRcvd.
C14_AsStated ==
    (call.op = "on_packet" /\ before.state = "SynRcvd") =>
        /\ c.state # "SynRcvd" =>
              /\ call.tcph.ack
              /\ call.tcph.acknowledgment_number # before.send.una
              /\ before.send.nxt = wrapping_add(before.send.iss, u32(1)) =>
                    call.tcph.acknowledgment_number = before.send.nxt
        /\ (call.tcph.ack /\ call.tcph.acknowledgment_number = before.send.una) =>
              c.state = "SynRcvd"

---------------------------------------------------------------------------
(* C15 *)

\* C15: in every reachable state, also when the application has written
\* payload, state FinWait2 or TimeWait implies that this side's FIN has
\* been acknowledged: send.una is past the sequence position of the FIN
\* transmitted on leaving Estab.  Stated at the return of a call that
\* began with nothing acknowledged and transmitted the FIN, whose position
\* is the sequence number of the frame that carries it.
C15_AsStated ==
    (/\ call.op = "on_packet"
     /\ before.send.una = before.send.iss
     /\ c.state \in {"FinWait2", "TimeWait"}) =>
        \A i \in 1..Len(nic) :
            nic[i].fin =>
                LET d == Dist(nic[i].sequence_number, c.send.una)
                IN  /\ u32_lt(U32Zero, d)
                    /\ u32_le(d, Dist(nic[i].sequence_number, c.send.nxt))

---------------------------------------------------------------------------
(* C16 *)

\* the last call was on_packet and its segment passed the acceptance check
\* (which did not stop at the `- 1` of line 156)
Accepted ==
    /\ call.op = "on_packet"
    /\ call.okay
    /\ ~(call.checks /\ last_underflows(before, call.tcph, call.len))

\* C16: for an accepted segment without the ACK flag, with or without FIN,
\* SYN or payload, on_packet changes only recv.nxt: state, send.una,
\* send.nxt and all the rest are unchanged, nothing is transmitted, and the
\* call returns success, in every state.
C16_NoAck ==
    (Accepted /\ ~call.tcph.ack) =>
        /\ ret = "Ok"
        /\ nic = <<>>
        /\ c = [before EXCEPT !.recv.nxt = c.recv.nxt]

\* a segment with FIN and one byte of payload but no ACK flag has been
\* accepted in FinWait1 and has moved recv.nxt
C16_Witness ==
    /\ Accepted
    /\ ~call.tcph.ack
    /\ call.tcph.fin
    /\ call.len = 1
    /\ before.state = "FinWait1"
    /\ c.recv.nxt # before.recv.nxt
    /\ ret = "Ok"

---------------------------------------------------------------------------
(* C17 *)

UnaStates == {"Estab", "FinWait1", "FinWait2"}

\* C17: on_packet never moves send.una past send.nxt.  send.una is assigned
\* only when the call reaches the update (line 185) in Estab, FinWait1 or
\* FinWait2, and only to an ack number ackn with
\* 0 < (ackn - send.una) mod 2^32 <= (send.nxt - send.una) mod 2^32; an ACK
\* with ackn = send.una or ackn beyond send.nxt leaves send.una, send.nxt
\* and the state of that step unchanged.  No other operation assigns it.
C17_Una ==
    /\ call.op \in {"write", "send_rst"} => c.send.una = before.send.una
    /\ call.op = "on_packet" =>
          /\ c.send.una # before.send.una =>
                /\ Accepted
                /\ call.tcph.ack
                /\ StateAtAck \in UnaStates
                /\ AckInRange
                /\ c.send.una = call.tcph.acknowledgment_number
                /\ u32_le(Dist(before.send.una, c.send.una),
                          Dist(before.send.una, c.send.nxt))
          /\ (Accepted /\ call.tcph.ack /\ StateAtAck \in UnaStates
                /\ ~AckInRange) =>
                /\ c.send.una = before.send.una
                /\ c.send.nxt = before.send.nxt
                /\ c.state = StateAtAck
                /\ nic = <<>>
                /\ ret = "Ok"

\* in FinWait1, with the FIN outstanding, an ACK for send.nxt has moved
\* send.una up to send.nxt
C17_Witness ==
    /\ call.op = "on_packet"
    /\ before.state = "FinWait1"
    /\ before.send.una # before.send.nxt
    /\ call.tcph.acknowledgment_number = before.send.nxt
    /\ c.send.una = before.send.nxt

---------------------------------------------------------------------------
(* C18 *)

\* send.una when the call reaches line 201
UnaAtFin ==
    IF StateAtAck \in UnaStates /\ AckInRange
    THEN call.tcph.acknowledgment_number
    ELSE before.send.una

\* the state in which the call reaches the FIN handling (line 208)
StateAtFin ==
    LET s1 == IF StateAtAck = "Estab" /\ AckInRange
              THEN "FinWait1" ELSE StateAtAck
    IN  IF s1 = "FinWait1" /\ UnaAtFin = wrapping_add(before.send.iss, u32(2))
        THEN "FinWait2" ELSE s1

\* the call reaches the FIN handling with a FIN to handle: the segment is
\* accepted, has ACK and FIN, and the call has not returned at line 187,
\* halted at line 190 or failed to send at line 196
ReachesFin ==
    /\ Accepted
    /\ call.tcph.ack /\ call.tcph.fin
    /\ StateAtAck \in UnaStates => (AckInRange /\ call.len = 0)
    /\ StateAtAck = "Estab" => (Len(nic) >= 1 /\ nic[1].sent)

\* C18: protocol-invariant violations end in a fatal error, never in a
\* state transition.  on_packet halts when an accepted segment with ACK and
\* FIN reaches the FIN handling in any state other than FinWait2, and when
\* an accepted segment with payload carries an ack number in
\* (send.una, send.nxt] in Estab, FinWait1 or FinWait2; so TimeWait is
\* entered only by a FIN handled in FinWait2.
C18_Fatal ==
    /\ (ReachesFin /\ StateAtFin # "FinWait2") =>
          (ret = "Panic" /\ c.state = StateAtFin)
    /\ (Accepted /\ call.tcph.ack /\ call.len > 0
          /\ StateAtAck \in UnaStates /\ AckInRange) =>
          (ret = "Panic" /\ c.state = StateAtAck)
    /\ (call.op # "none" /\ c.state = "TimeWait" /\ before.state # "TimeWait") =>
          (ReachesFin /\ StateAtFin = "FinWait2")

\* a second FIN, with ACK, has reached the FIN handling in TimeWait, and
\* the call has halted
C18_Witness ==
    /\ ReachesFin
    /\ before.state = "TimeWait"
    /\ StateAtFin = "TimeWait"
    /\ ret = "Panic"

---------------------------------------------------------------------------
(* C19 *)

\* C19: every sequence-number computation in accept and on_packet is done
\* modulo 2^32 and never fails at the wrap boundary: accept of a SYN with
\* sequence number 2^32 - 1 gives recv.nxt = 0, and the last-position
\* computation of the acceptance check wraps, without an overflow or
\* underflow failure, when seqn + slen - 1 is 0 mod 2^32.
C19_AsStated ==
    /\ (call.op = "accept" /\ call.tcph.syn
          /\ call.tcph.sequence_number = U32Max /\ AllSent) =>
          (ret = "OkSome" /\ c.recv.nxt = U32Zero)
    /\ (call.op = "on_packet" /\ Slen > 0
          /\ wrapping_add(call.tcph.sequence_number, u32(Slen - 1)) = U32Zero) =>
          ~(ret = "Panic" /\ call.checks)

---------------------------------------------------------------------------
(* C20 *)

\* the order of the states
Rank(s) ==
    CASE s = "SynRcvd"  -> 1
      [] s = "Estab"    -> 2
      [] s = "FinWait1" -> 3
      [] s = "FinWait2" -> 4
      [] s = "TimeWait" -> 5

\* C20: over any sequence of on_packet, write and send_rst calls the state
\* only moves forward in the order SynRcvd, Estab, FinWait1, FinWait2,
\* TimeWait; write and send_rst never change it; and TimeWait is terminal:
\* once the state is TimeWait no operation changes it.
C20_Forward ==
    [][(c # None) =>
          /\ c' # None
          /\ Rank(c'.state) >= Rank(c.state)
          /\ call'.op \in {"write", "send_rst"} => c'.state = c.state
          /\ c.state = "TimeWait" => c'.state = "TimeWait"]_vars

\* in TimeWait the engine has processed a further segment, acknowledged it,
\* and is still in TimeWait
C20_Witness ==
    /\ call.op = "on_packet"
    /\ before.state = "TimeWait"
    /\ c.state = "TimeWait"
    /\ Len(nic) = 1
    /\ ret = "Ok"

====
